---- MODULE Spec2Model ----
(***************************************************************************)
(* A model of the two predictive parsers of the repository:                *)
(*   runner.py  the evaluating parser (parses and evaluates in one pass),  *)
(*   parser.py  the recognize-only parser.                                 *)
(* The recursive procedures are run on an explicit call stack, one action  *)
(* per procedure; a frame holds the procedure, its position and its        *)
(* locals.  The file is a stream of lexemes (the maximal segments the plex *)
(* scanner cuts the text into), drawn one at a time as the scanner reads.  *)
(***************************************************************************)
EXTENDS Naturals, Sequences, FiniteSets, TLC

\* ---------------------------------------------------------------- bounds

\* The files checked are the lexeme streams of total weight <= MaxCost.
MaxCost == 8

\* ------------------------------------------------------------ characters

Upper == <<"A","B","C","D","E","F","G","H","I","J","K","L","M",
           "N","O","P","Q","R","S","T","U","V","W","X","Y","Z">>

Lower == <<"a","b","c","d","e","f","g","h","i","j","k","l","m",
           "n","o","p","q","r","s","t","u","v","w","x","y","z">>

Range(s) == {s[i] : i \in 1..Len(s)}

letter == Range(Upper) \cup Range(Lower)

digit == {"0","1","2","3","4","5","6","7","8","9"}

ToLower(c) ==
  IF c \in Range(Upper) THEN Lower[CHOOSE i \in 1..Len(Upper) : Upper[i] = c] ELSE c

LowerSeq(cs) == [i \in 1..Len(cs) |-> ToLower(cs[i])]

\* The spelling of each lexeme of the files checked.
Chars(text) ==
  CASE text = "0"     -> <<"0">>
    [] text = "1"     -> <<"1">>
    [] text = "10"    -> <<"1","0">>
    [] text = "011"   -> <<"0","1","1">>
    [] text = "x"     -> <<"x">>
    [] text = "y"     -> <<"y">>
    [] text = "="     -> <<"=">>
    [] text = "("     -> <<"(">>
    [] text = ")"     -> <<")">>
    [] text = "and"   -> <<"a","n","d">>
    [] text = "or"    -> <<"o","r">>
    [] text = "xor"   -> <<"x","o","r">>
    [] text = "print" -> <<"p","r","i","n","t">>
    [] text = "PRINT" -> <<"P","R","I","N","T">>
    [] text = "Print" -> <<"P","r","i","n","t">>
    [] text = " "     -> <<" ">>
    [] text = "{c}"   -> <<"{","c","}">>
    [] text = ":"     -> <<":">>
    [] OTHER          -> <<>>

\* What a file can hold, and the weight of each lexeme in the bound MaxCost.
CoreLexemes == {"0", "1", "x", "=", "(", ")", "and", "or", "xor", "print"}

RareLexemes == {"10", "011", "y", "PRINT", "Print", " ", "{c}", ":"}

Lexemes == CoreLexemes \cup RareLexemes

Cost(text) == IF text \in CoreLexemes THEN 1 ELSE 3

\* ------------------------------------------------- the lexicon (plex)

None == "None"
IGNORE == "IGNORE"
Unrecognized == "UnrecognizedInput"

binary(cs) == Len(cs) >= 1 /\ \A i \in 1..Len(cs) : cs[i] \in {"0","1"}

id(cs) == /\ Len(cs) >= 1
          /\ cs[1] \in letter
          /\ \A i \in 2..Len(cs) : cs[i] \in letter \cup digit

operator(cs) == cs \in {<<"a","n","d">>, <<"o","r">>, <<"x","o","r">>, <<"=">>}

paren(cs) == cs \in {<<"(">>, <<")">>}

space(cs) == cs \in {<<" ">>, <<"\t">>, <<"\n">>}

comment(cs) == /\ Len(cs) >= 2
               /\ cs[1] = "{"
               /\ cs[Len(cs)] = "}"
               /\ \A i \in 2..(Len(cs)-1) : cs[i] # "}"

keyword(cs) == LowerSeq(cs) = <<"p","r","i","n","t">>

\* The token a lexeme yields: the action of the first pattern of the lexicon
\* that matches it (plex.TEXT yields the matched text itself).
lexicon(text) ==
  LET cs == Chars(text) IN
  IF binary(cs) THEN "binary"
  ELSE IF operator(cs) THEN text
  ELSE IF keyword(cs) THEN text
  ELSE IF paren(cs) THEN text
  ELSE IF space(cs) \/ comment(cs) THEN IGNORE
  ELSE IF id(cs) THEN "id"
  ELSE Unrecognized

\* ------------------------------------------------------- Python values

PyNone == <<"None">>
PyInt(n) == <<"int", n>>
PyStr(s) == <<"str", s>>

RECURSIVE BitAnd(_, _)
BitAnd(a, b) ==
  IF a = 0 \/ b = 0 THEN 0
  ELSE 2 * BitAnd(a \div 2, b \div 2) + (IF a % 2 = 1 /\ b % 2 = 1 THEN 1 ELSE 0)

RECURSIVE BitOr(_, _)
BitOr(a, b) ==
  IF a = 0 THEN b ELSE IF b = 0 THEN a
  ELSE 2 * BitOr(a \div 2, b \div 2) + (IF a % 2 = 1 \/ b % 2 = 1 THEN 1 ELSE 0)

RECURSIVE BitXor(_, _)
BitXor(a, b) ==
  IF a = 0 THEN b ELSE IF b = 0 THEN a
  ELSE 2 * BitXor(a \div 2, b \div 2) + (IF a % 2 # b % 2 THEN 1 ELSE 0)

\* int(text, 2)
RECURSIVE IntBase2(_)
IntBase2(cs) ==
  IF cs = <<>> THEN 0
  ELSE 2 * IntBase2(SubSeq(cs, 1, Len(cs) - 1)) + (IF cs[Len(cs)] = "1" THEN 1 ELSE 0)

\* '{:b}'.format(n)
RECURSIVE FormatB(_)
FormatB(n) ==
  IF n < 2 THEN <<IF n = 1 THEN "1" ELSE "0">>
  ELSE Append(FormatB(n \div 2), IF n % 2 = 1 THEN "1" ELSE "0")

\* a = a <op> b_val for b_val in b[:-1]
\* Faulty variant: the fold leaves out the first value of the tail (b[1:-1]).
RECURSIVE FoldTailSkipsFirst(_, _, _)
FoldTailSkipsFirst(op, a, b) ==
  IF Len(b) <= 2 THEN a
  ELSE FoldTailSkipsFirst(op,
                          PyInt(CASE op = "xor" -> BitXor(a[2], b[2][2])
                                  [] op = "or"  -> BitOr(a[2], b[2][2])
                                  [] op = "and" -> BitAnd(a[2], b[2][2])),
                          Tail(b))

RECURSIVE FoldTail(_, _, _)
FoldTail(op, a, b) ==
  IF Len(b) <= 1 THEN a
  ELSE FoldTail(op,
                PyInt(CASE op = "xor" -> BitXor(a[2], b[1][2])
                        [] op = "or"  -> BitOr(a[2], b[1][2])
                        [] op = "and" -> BitAnd(a[2], b[1][2])),
                Tail(b))

\* ----------------------------------------------------------------- state

VARIABLES
  la, val,      \* runner.py MyParser.la, .val: the lookahead token and its text
  st,           \* runner.py MyParser.st: the symbol table
  scanner,      \* the plex scanner: lexemes consumed, start of the last scan
  stack,        \* the call stack below the driver: frames of procedures
  ret,          \* the value the last procedure to return has returned
  out,          \* the lines written to stdout
  status,       \* where the run is: start, parsing, raised, or how it ended
  exc,          \* the exception in flight, or that ended the run
  spent,        \* weight of the lexemes the file has yielded so far
  h,            \* history: what the properties below are stated in
  pla, pval,    \* parser.py MyParser.la, .val
  pscanner,     \* parser.py: its plex scanner
  pstack,       \* parser.py: its call stack
  pout,         \* parser.py: its stdout
  pstatus,      \* parser.py: where its run is ("off": it is not run)
  pexc,         \* parser.py: its exception
  turn,         \* side by side: whose step it is, "R" (runner.py) or "P" (parser.py)
  tee           \* side by side: lexemes one scanner has read and the other not yet

rvars == <<la, val, st, scanner, stack, ret, out, status, exc, h>>

pvars == <<pla, pval, pscanner, pstack, pout, pstatus, pexc>>

vars == <<rvars, pvars, spent, turn, tee>>

EOF == ""

NoExc == [type |-> "", text |-> "", args |-> <<>>, in |-> ""]

Frame(p) == [proc |-> p, pc |-> "start", a |-> PyNone, sym |-> ""]

Top == stack[Len(stack)]

Rest == SubSeq(stack, 1, Len(stack) - 1)

Live(s) == s \in {"start", "parsing", "raised"}

At(p) == turn = "R" /\ status = "parsing" /\ stack # <<>> /\ Top.proc = p

\* A step of runner.py: parser.py is left alone and gets the next step, if it runs
Quiet ==
  /\ turn' = IF Live(pstatus) THEN "P" ELSE "R"
  /\ UNCHANGED pvars

FIRST_Operand == {"id", "binary", "("}

FOLLOW_Term_tail == {")", "id", "print"}

FOLLOW_Factor_tail == {")", "xor", "id", "print"}

FOLLOW_Operand_tail == {")", "xor", "or", "id", "print"}

History ==
  [prog |-> <<>>,      \* the tokens matched since the run began
   toks |-> <<>>,      \* the tokens matched since the current statement began
   ntok |-> 0,         \* tokens the scanner has produced (end of input is none)
   nmatch |-> 0,       \* tokens match has consumed
   laIdx |-> 0,        \* which lexeme of the file the lookahead is (1-based)
   eaten |-> 0,        \* which lexeme the token consumed last was
   started |-> 0,      \* statements begun
   finished |-> 0,     \* statements that have taken effect
   done |-> 0,         \* tokens matched when the last of them took effect
   last |-> <<>>,      \* the statement that took effect last
   undef |-> "",       \* the unbound identifier an operand has matched, if any
   undefAt |-> 0,      \* which lexeme of the file it was
   snap |-> <<>>,      \* the table and the output when it was matched
   bound |-> {}]       \* the targets of the assignments that have completed

Start ==
  /\ la = None /\ val = ""
  /\ st = << >>
  /\ scanner = [cur_pos |-> 0, start_pos |-> 0]
  /\ stack = <<>>
  /\ ret = PyNone
  /\ out = <<>>
  /\ status = "start"
  /\ exc = NoExc
  /\ spent = 0
  /\ h = History
  /\ pla = None /\ pval = ""
  /\ pscanner = [cur_pos |-> 0, start_pos |-> 0]
  /\ pstack = <<>>
  /\ pout = <<>>
  /\ pexc = NoExc
  /\ turn = "R"
  /\ tee = <<>>

\* runner.py alone
Init == Start /\ pstatus = "off"

\* runner.py and parser.py side by side on one file
InitPair == Start /\ pstatus = "start"

\* ------------------------------------------------ reference evaluator
\* What the statements mean, computed without the parser: a value is a
\* vector of bits of any width (most significant first); an expression is
\* split at its last operator of the loosest kind outside parentheses.

Bad == <<2>>

PadTo(v, n) == [i \in 1..n |-> IF i <= n - Len(v) THEN 0 ELSE v[i - (n - Len(v))]]

Widest(v, w) == IF Len(v) >= Len(w) THEN Len(v) ELSE Len(w)

RefOp(op, v, w) ==
  LET n == Widest(v, w)
      a == PadTo(v, n)
      b == PadTo(w, n)
  IN  IF v = Bad \/ w = Bad THEN Bad
      ELSE [i \in 1..n |->
              CASE op = "and" -> IF a[i] = 1 /\ b[i] = 1 THEN 1 ELSE 0
                [] op = "or"  -> IF a[i] = 1 \/ b[i] = 1 THEN 1 ELSE 0
                [] op = "xor" -> IF a[i] # b[i] THEN 1 ELSE 0]

RefBits(text) ==
  LET cs == Chars(text) IN [i \in 1..Len(cs) |-> IF cs[i] = "1" THEN 1 ELSE 0]

\* the value as unsigned binary text: no leading zeros, "0" for zero
RefText(v) ==
  IF v = Bad THEN <<"?">>
  ELSE IF \A i \in 1..Len(v) : v[i] = 0 THEN <<"0">>
  ELSE LET first == CHOOSE i \in 1..Len(v) : v[i] = 1 /\ \A j \in 1..(i-1) : v[j] = 0
       IN  [i \in 1..(Len(v) - first + 1) |-> IF v[first + i - 1] = 1 THEN "1" ELSE "0"]

\* how many parentheses are open before token i
RefDepth(ts, i) ==
  Cardinality({j \in 1..(i-1) : ts[j][1] = "("}) - Cardinality({j \in 1..(i-1) : ts[j][1] = ")"})

RefSplits(ts, op) == {i \in 1..Len(ts) : ts[i][1] = op /\ RefDepth(ts, i) = 0}

RefLevelOp(level) == CASE level = 1 -> "xor" [] level = 2 -> "or" [] OTHER -> "and"

RECURSIVE RefEval(_, _, _)
RefEval(level, ts, env) ==
  IF level <= 3
  THEN LET S == RefSplits(ts, RefLevelOp(level)) IN
       IF S = {} THEN RefEval(level + 1, ts, env)
       ELSE LET i == CHOOSE k \in S : \A j \in S : j <= k IN
            RefOp(RefLevelOp(level),
                  RefEval(level, SubSeq(ts, 1, i - 1), env),
                  RefEval(level + 1, SubSeq(ts, i + 1, Len(ts)), env))
  ELSE IF Len(ts) = 1 /\ ts[1][1] = "binary" THEN RefBits(ts[1][2])
  ELSE IF Len(ts) = 1 /\ ts[1][1] = "id" /\ ts[1][2] \in DOMAIN env THEN env[ts[1][2]]
  ELSE IF Len(ts) >= 3 /\ ts[1][1] = "(" /\ ts[Len(ts)][1] = ")"
  THEN RefEval(1, SubSeq(ts, 2, Len(ts) - 1), env)
  ELSE Bad

\* where the statements of a program begin: at print, and at an id before =
RefStarts(ts) ==
  {i \in 1..Len(ts) : \/ ts[i][1] = "print"
                       \/ (ts[i][1] = "id" /\ i < Len(ts) /\ ts[i + 1][1] = "=")}

\* the statement of ts that begins at token i
RefStmtAt(ts, i) ==
  LET later == {j \in RefStarts(ts) : j > i}
      stop == IF later = {} THEN Len(ts)
              ELSE (CHOOSE j \in later : \A k \in later : j <= k) - 1
  IN  SubSeq(ts, i, stop)

\* the bindings and the print lines after the first n statements of ts
RECURSIVE RefRun(_, _)
RefRun(ts, n) ==
  IF n = 0 THEN [env |-> << >>, out |-> <<>>]
  ELSE LET before == RefRun(ts, n - 1)
           starts == RefStarts(ts)
           i == CHOOSE j \in starts : Cardinality({k \in starts : k < j}) = n - 1
           stm == RefStmtAt(ts, i)
       IN  IF stm[1][1] = "id"
           THEN [before EXCEPT
                   !.env = (stm[1][2] :> RefEval(1, SubSeq(stm, 3, Len(stm)), before.env)) @@ @]
           ELSE [before EXCEPT
                   !.out = Append(@, RefText(RefEval(1, Tail(stm), before.env)))]

\* ------------------------------------------------------ control helpers

\* return v
Return(v) ==
  /\ stack' = Rest
  /\ ret' = v
  /\ UNCHANGED <<status, exc>>

\* keep a in the frame, move it to pc, and call procedure p
Call(pc, a, p) ==
  /\ stack' = Append(Append(Rest, [Top EXCEPT !.pc = pc, !.a = a]), Frame(p))
  /\ UNCHANGED <<ret, status, exc>>

\* raise type(text.format(*args)) in procedure proc: the frames up to the
\* driver are left
RaiseIn(proc, type, text, args) ==
  /\ stack' = <<>>
  /\ status' = "raised"
  /\ exc' = [type |-> type, text |-> text, args |-> args, in |-> proc]
  /\ UNCHANGED ret

Raise(type, text, args) == RaiseIn(Top.proc, type, text, args)

\* Faulty variant: an identifier that is not in the table evaluates to 0 (st.get(val, 0)).
evaluateDefaultsToZero ==
  IF la = "binary" THEN PyInt(IntBase2(Chars(val)))
  ELSE IF la = "id" THEN (IF val \in DOMAIN st THEN PyInt(st[val]) ELSE PyInt(0))
  ELSE PyStr(val)

\* MyParser.evaluate
evaluate ==
  IF la = "binary" THEN PyInt(IntBase2(Chars(val)))
  ELSE IF la = "id" THEN (IF val \in DOMAIN st THEN PyInt(st[val]) ELSE PyNone)
  ELSE PyStr(val)

\* the history of a match: an operand that is an identifier no completed
\* assignment has bound is noted, with the table and the output as they were
Matched(token) ==
  LET unbound == Top.proc = "operand" /\ token = "id" /\ val \notin h.bound
                   /\ h.undef = ""
  IN  [h EXCEPT !.prog = Append(@, <<la, val>>),
                !.toks = Append(@, <<la, val>>),
                !.nmatch = @ + 1,
                !.eaten = h.laIdx,
                !.undef = IF unbound THEN val ELSE @,
                !.undefAt = IF unbound THEN h.laIdx ELSE @,
                !.snap = IF unbound THEN <<st, out>> ELSE @]

\* MyParser.match(token), up to its call of next_token; the caller goes on at pc
match(token, pc, a, sym) ==
  IF la = token
  THEN /\ stack' = Append(Append(Rest, [Top EXCEPT !.pc = pc, !.a = a, !.sym = sym]),
                          [proc |-> "match", pc |-> "read", a |-> evaluate, sym |-> ""])
       /\ h' = Matched(token)
       /\ UNCHANGED <<ret, status, exc>>
  ELSE /\ RaiseIn("match", "ParseError", "found {} instead of {}", <<la, token>>)
       /\ UNCHANGED h

\* Faulty variant: the position is where the scanner stands, not where the token began.
positionIsCurrent == scanner.cur_pos

\* MyParser.position: the start of the last token scanned (0-based)
position == scanner.start_pos

\* Faulty variant: a symbol that is bound keeps its value (st.setdefault(symbol, value)).
StoreKeepsOld(symbol, value) == st @@ (symbol :> value)

\* Faulty variant: the table is replaced by the one binding (st = {symbol: value}).
StoreReplacesTable(symbol, value) == (symbol :> value)

\* self.st[symbol] = value
Store(symbol, value) == (symbol :> value) @@ st

\* Faulty variant: stmt_list returns on any lookahead that starts no statement.
AtEndOrAnything == TRUE

\* stmt_list: the lookahead is the end of input
AtEnd == la = None

\* ------------------------------------------------------------- scanner

\* the lexemes the file may hold next, within the bound, or its end
Fresh == {lx \in Lexemes : spent + Cost(lx) <= MaxCost} \cup {EOF}

\* One scan of Scanner.read(), called by next_token() in match and in
\* create_scanner: an ignored lexeme leaves the read pending.
NextToken ==
  /\ turn = "R" /\ status = "parsing" /\ stack # <<>> /\ Top.pc = "read"
  /\ \E lx \in Fresh :
       /\ tee' = IF Live(pstatus) THEN Append(tee, lx) ELSE tee
       /\ LET tok == IF lx = EOF THEN None ELSE lexicon(lx)
              scanned == [scanner EXCEPT !.start_pos = scanner.cur_pos]
          IN  IF tok = Unrecognized
              THEN /\ scanner' = scanned
                   /\ Raise("PlexError", "UnrecognizedInput", <<>>)
                   /\ UNCHANGED <<la, val, spent, h>>
              ELSE /\ scanner' = IF lx = EOF THEN scanned
                                 ELSE [scanned EXCEPT !.cur_pos = @ + 1]
                   /\ spent' = IF lx = EOF THEN spent ELSE spent + Cost(lx)
                   /\ IF tok = IGNORE
                      THEN UNCHANGED <<la, val, stack, ret, status, exc, h>>
                      ELSE /\ la' = tok
                           /\ val' = lx
                           /\ h' = [h EXCEPT !.laIdx = scanner.cur_pos + 1,
                                             !.ntok = IF lx = EOF THEN @ ELSE @ + 1]
                           /\ Return(Top.a)
  /\ UNCHANGED <<st, out>>
  /\ Quiet

\* ------------------------------------------------------ runner.py: driver

\* parser = MyParser(); parser.parse(fp): create_scanner reads the first lookahead
Main ==
  /\ turn = "R" /\ status = "start"
  /\ status' = "parsing"
  /\ stack' = <<[Frame("parse") EXCEPT !.pc = "stmt_list"],
                [proc |-> "create_scanner", pc |-> "read", a |-> PyNone, sym |-> ""]>>
  /\ UNCHANGED <<la, val, st, scanner, spent, ret, out, exc, h, tee>>
  /\ Quiet

\* MyParser.parse after create_scanner: self.stmt_list(), then the run is over
Parse ==
  /\ At("parse")
  /\ IF Top.pc = "stmt_list"
     THEN Call("end", PyNone, "stmt_list")
     ELSE /\ stack' = <<>>
          /\ status' = "accepted"
          /\ UNCHANGED <<ret, exc>>
  /\ UNCHANGED <<la, val, st, scanner, spent, out, h, tee>>
  /\ Quiet

\* Faulty variant: the driver reports a parse error and resumes at the statement list.
HandlerResumes ==
  /\ turn = "R" /\ status = "raised"
  /\ out' = Append(out, [kind |-> "Parser Error", bits |-> <<>>,
                         msg |-> exc, pos |-> position + 1])
  /\ status' = "parsing"
  /\ stack' = <<[Frame("parse") EXCEPT !.pc = "end"], Frame("stmt_list")>>
  /\ UNCHANGED <<la, val, st, scanner, spent, ret, exc, h, tee>>
  /\ Quiet

\* The except clauses of the driver; a RuntimeError is caught by none
Handler ==
  /\ turn = "R" /\ status = "raised"
  /\ IF exc.type = "PlexError"
     THEN /\ out' = Append(out, [kind |-> "Scanner Error", bits |-> <<>>,
                                 msg |-> NoExc, pos |-> position + 1])
          /\ status' = "scanner_error"
     ELSE IF exc.type = "ParseError"
     THEN /\ out' = Append(out, [kind |-> "Parser Error", bits |-> <<>>,
                                 msg |-> exc, pos |-> position + 1])
          /\ status' = "parser_error"
     ELSE /\ out' = out
          /\ status' = "crashed"
  /\ UNCHANGED <<la, val, st, scanner, spent, stack, ret, exc, h, tee>>
  /\ Quiet

\* ------------------------------------------------- runner.py: the grammar

stmt_list ==
  /\ At("stmt_list")
  /\ IF Top.pc = "start"
     THEN IF la = "id" \/ la = "print"
          THEN /\ Call("rest", PyNone, "stmt")
               /\ h' = [h EXCEPT !.toks = <<>>, !.started = @ + 1]
          ELSE IF AtEnd
          THEN Return(PyNone) /\ UNCHANGED h
          ELSE /\ Raise("ParseError", "in stmt_list: id or print expected", <<>>)
               /\ UNCHANGED h
     ELSE IF Top.pc = "rest"
     THEN Call("end", PyNone, "stmt_list") /\ UNCHANGED h
     ELSE Return(PyNone) /\ UNCHANGED h
  /\ UNCHANGED <<la, val, st, scanner, spent, out, tee>>
  /\ Quiet

stmt ==
  /\ At("stmt")
  /\ CASE Top.pc = "start" ->
            /\ IF la = "id" THEN match("id", "eq", PyNone, val)
               ELSE IF la = "print" THEN match("print", "pexpr", PyNone, "")
               ELSE /\ Raise("ParseError", "in stmt: id or print expected", <<>>)
                    /\ UNCHANGED h
            /\ UNCHANGED <<st, out>>
       [] Top.pc = "eq" ->
            /\ match("=", "aexpr", PyNone, Top.sym)
            /\ UNCHANGED <<st, out>>
       [] Top.pc = "aexpr" ->
            /\ Call("store", PyNone, "expr")
            /\ UNCHANGED <<st, out, h>>
       [] Top.pc = "store" ->
            /\ st' = Store(Top.sym, ret[2])
            /\ Return(PyNone)
            /\ h' = [h EXCEPT !.finished = @ + 1,
                              !.done = Len(h.prog),
                              !.last = <<"assign", Top.sym, ret[2]>>,
                              !.bound = @ \cup {Top.sym}]
            /\ UNCHANGED out
       [] Top.pc = "pexpr" ->
            /\ Call("print", PyNone, "expr")
            /\ UNCHANGED <<st, out, h>>
       [] Top.pc = "print" ->
            /\ out' = Append(out, [kind |-> "print", bits |-> FormatB(ret[2]),
                                   msg |-> NoExc, pos |-> 0])
            /\ Return(PyNone)
            /\ h' = [h EXCEPT !.finished = @ + 1,
                              !.done = Len(h.prog),
                              !.last = <<"print", "", ret[2]>>]
            /\ UNCHANGED st
  /\ UNCHANGED <<la, val, scanner, spent, tee>>
  /\ Quiet

\* The shape expr, term and factor share: sub, then tail, then the fold
Level(sub, tail, op, text) ==
  /\ IF Top.pc = "start"
     THEN IF la \in FIRST_Operand
          THEN Call("tail", PyNone, sub)
          ELSE Raise("ParseError", text, <<>>)
     ELSE IF Top.pc = "tail"
     THEN Call("fold", ret, tail)
     ELSE Return(IF ret # PyNone THEN FoldTail(op, Top.a, ret) ELSE Top.a)
  /\ UNCHANGED <<la, val, st, scanner, spent, out, h, tee>>
  /\ Quiet

\* The shape term_tail, factor_tail and operand_tail share
LevelTail(name, op, sub, follow, text) ==
  /\ CASE Top.pc = "start" ->
            IF la = op
            THEN match(op, "sub", PyNone, "")
            ELSE IF la = None \/ la \in follow
            THEN Return(<<PyNone>>) /\ UNCHANGED h
            ELSE Raise("ParseError", text, <<>>) /\ UNCHANGED h
       [] Top.pc = "sub" -> Call("tail", PyNone, sub) /\ UNCHANGED h
       [] Top.pc = "tail" -> Call("ret", ret, name) /\ UNCHANGED h
       [] Top.pc = "ret" -> Return(<<Top.a>> \o ret) /\ UNCHANGED h
  /\ UNCHANGED <<la, val, st, scanner, spent, out, tee>>
  /\ Quiet

expr ==
  /\ At("expr")
  /\ Level("term", "term_tail", "xor", "in expr: id, binary or '(' expected")

term ==
  /\ At("term")
  /\ Level("factor", "factor_tail", "or", "in term: id, binary or '(' expected")

factor ==
  /\ At("factor")
  /\ Level("operand", "operand_tail", "and", "in factor: id, binary or '(' expected")

term_tail ==
  /\ At("term_tail")
  /\ LevelTail("term_tail", "xor", "term", FOLLOW_Term_tail,
               "in term_tail: xor expected")

factor_tail ==
  /\ At("factor_tail")
  /\ LevelTail("factor_tail", "or", "factor", FOLLOW_Factor_tail,
               "in factor_tail: or expected")

operand_tail ==
  /\ At("operand_tail")
  /\ LevelTail("operand_tail", "and", "operand", FOLLOW_Operand_tail,
               "in operand_tail: or expected")

operand ==
  /\ At("operand")
  /\ CASE Top.pc = "start" ->
            IF la = "id" THEN match("id", "check", PyNone, val)
            ELSE IF la = "binary" THEN match("binary", "lit", PyNone, "")
            ELSE IF la = "(" THEN match("(", "sub", PyNone, "")
            ELSE /\ Raise("ParseError", "in operand: id, binary or '(' expected", <<>>)
                 /\ UNCHANGED h
       [] Top.pc = "check" ->
            /\ IF ret = PyNone
               THEN Raise("RuntimeError", "variable '{}' referenced before assignment",
                          <<Top.sym>>)
               ELSE Return(ret)
            /\ UNCHANGED h
       [] Top.pc = "lit" -> Return(ret) /\ UNCHANGED h
       [] Top.pc = "sub" -> Call("close", PyNone, "expr") /\ UNCHANGED h
       [] Top.pc = "close" -> match(")", "ret", ret, "")
       [] Top.pc = "ret" -> Return(Top.a) /\ UNCHANGED h
  /\ UNCHANGED <<la, val, st, scanner, spent, out, tee>>
  /\ Quiet

Next ==
  \/ Main
  \/ NextToken
  \/ Parse
  \/ Handler
  \/ stmt_list
  \/ stmt
  \/ expr
  \/ term
  \/ factor
  \/ term_tail
  \/ factor_tail
  \/ operand_tail
  \/ operand

Spec == Init /\ [][Next]_vars

\* ------------------------------------------------------------ parser.py
\* The recognize-only parser: the same procedures without values.  It reads
\* the lexemes runner.py's scanner has read, then the file's next ones.

PFrame(p) == [proc |-> p, pc |-> "start"]

PTop == pstack[Len(pstack)]

PRest == SubSeq(pstack, 1, Len(pstack) - 1)

PAt(p) == turn = "P" /\ pstatus = "parsing" /\ pstack # <<>> /\ PTop.proc = p

\* A step of parser.py: runner.py is left alone and gets the next step, if it runs
PQuiet ==
  /\ turn' = IF Live(status) THEN "R" ELSE "P"
  /\ UNCHANGED rvars

\* Faulty variant: the FIRST set the file's comment gives Term, without "(".
P_FIRST_WithoutParen == {"id", "binary"}

P_FIRST_Operand == {"id", "binary", "("}

P_FOLLOW_Term_tail == {")", "id", "print"}

P_FOLLOW_Factor_tail == {")", "xor", "id", "print"}

P_FOLLOW_Operand_tail == {")", "xor", "or", "id", "print"}

PReturn ==
  /\ pstack' = PRest
  /\ UNCHANGED <<pstatus, pexc>>

PCall(pc, p) ==
  /\ pstack' = Append(Append(PRest, [PTop EXCEPT !.pc = pc]), PFrame(p))
  /\ UNCHANGED <<pstatus, pexc>>

PRaiseIn(proc, type, text, args) ==
  /\ pstack' = <<>>
  /\ pstatus' = "raised"
  /\ pexc' = [type |-> type, text |-> text, args |-> args, in |-> proc]

PRaise(type, text, args) == PRaiseIn(PTop.proc, type, text, args)

\* parser.py MyParser.match(token), up to its call of next_token
p_match(token, pc) ==
  IF pla = token
  THEN /\ pstack' = Append(Append(PRest, [PTop EXCEPT !.pc = pc]),
                           [proc |-> "match", pc |-> "read"])
       /\ UNCHANGED <<pstatus, pexc>>
  ELSE PRaiseIn("match", "ParseError", "found {} instead of {}", <<pla, token>>)

p_position == pscanner.start_pos

P_NextToken ==
  /\ turn = "P" /\ pstatus = "parsing" /\ pstack # <<>> /\ PTop.pc = "read"
  /\ \E lx \in (IF tee # <<>> THEN {Head(tee)} ELSE Fresh) :
       /\ tee' = IF tee # <<>> THEN Tail(tee) ELSE tee
       /\ spent' = IF tee # <<>> \/ lx = EOF \/ lexicon(lx) = Unrecognized
                   THEN spent ELSE spent + Cost(lx)
       /\ LET tok == IF lx = EOF THEN None ELSE lexicon(lx)
              scanned == [pscanner EXCEPT !.start_pos = pscanner.cur_pos]
          IN  IF tok = Unrecognized
              THEN /\ pscanner' = scanned
                   /\ PRaise("PlexError", "UnrecognizedInput", <<>>)
                   /\ UNCHANGED <<pla, pval>>
              ELSE /\ pscanner' = IF lx = EOF THEN scanned
                                  ELSE [scanned EXCEPT !.cur_pos = @ + 1]
                   /\ IF tok = IGNORE
                      THEN UNCHANGED <<pla, pval, pstack, pstatus, pexc>>
                      ELSE /\ pla' = tok
                           /\ pval' = lx
                           /\ PReturn
  /\ UNCHANGED pout
  /\ PQuiet

P_Main ==
  /\ turn = "P" /\ pstatus = "start"
  /\ pstatus' = "parsing"
  /\ pstack' = <<[proc |-> "parse", pc |-> "stmt_list"],
                 [proc |-> "create_scanner", pc |-> "read"]>>
  /\ UNCHANGED <<pla, pval, pscanner, pout, pexc, spent, tee>>
  /\ PQuiet

\* parse after create_scanner; after the with block the driver prints Done!
P_Parse ==
  /\ PAt("parse")
  /\ IF PTop.pc = "stmt_list"
     THEN PCall("end", "stmt_list") /\ UNCHANGED pout
     ELSE /\ pstack' = <<>>
          /\ pstatus' = "accepted"
          /\ pout' = Append(pout, [kind |-> "Done!", msg |-> NoExc, pos |-> 0])
          /\ UNCHANGED pexc
  /\ UNCHANGED <<pla, pval, pscanner, spent, tee>>
  /\ PQuiet

P_Handler ==
  /\ turn = "P" /\ pstatus = "raised"
  /\ IF pexc.type = "PlexError"
     THEN /\ pout' = pout \o <<[kind |-> "Scanner Error", msg |-> NoExc,
                                pos |-> p_position + 1],
                               [kind |-> "Done!", msg |-> NoExc, pos |-> 0]>>
          /\ pstatus' = "scanner_error"
     ELSE /\ pout' = pout \o <<[kind |-> "Parser Error", msg |-> pexc,
                                pos |-> p_position + 1],
                               [kind |-> "Done!", msg |-> NoExc, pos |-> 0]>>
          /\ pstatus' = "parser_error"
  /\ UNCHANGED <<pla, pval, pscanner, pstack, pexc, spent, tee>>
  /\ PQuiet

p_stmt_list ==
  /\ PAt("stmt_list")
  /\ IF PTop.pc = "start"
     THEN IF pla = "id" \/ pla = "print"
          THEN PCall("rest", "stmt")
          ELSE IF pla = None
          THEN PReturn
          ELSE PRaise("ParseError", "in stmt_list: id or print expected", <<>>)
     ELSE IF PTop.pc = "rest"
     THEN PCall("end", "stmt_list")
     ELSE PReturn
  /\ UNCHANGED <<pla, pval, pscanner, pout, spent, tee>>
  /\ PQuiet

p_stmt ==
  /\ PAt("stmt")
  /\ CASE PTop.pc = "start" ->
            IF pla = "id" THEN p_match("id", "eq")
            ELSE IF pla = "print" THEN p_match("print", "pexpr")
            ELSE PRaise("ParseError", "in stmt: id or print expected", <<>>)
       [] PTop.pc = "eq" -> p_match("=", "aexpr")
       [] PTop.pc = "aexpr" -> PCall("end", "expr")
       [] PTop.pc = "pexpr" -> PCall("end", "expr")
       [] PTop.pc = "end" -> PReturn
  /\ UNCHANGED <<pla, pval, pscanner, pout, spent, tee>>
  /\ PQuiet

P_Level(sub, tail, text) ==
  /\ IF PTop.pc = "start"
     THEN IF pla \in P_FIRST_Operand
          THEN PCall("tail", sub)
          ELSE PRaise("ParseError", text, <<>>)
     ELSE IF PTop.pc = "tail"
     THEN PCall("end", tail)
     ELSE PReturn
  /\ UNCHANGED <<pla, pval, pscanner, pout, spent, tee>>
  /\ PQuiet

P_LevelTail(name, op, sub, follow, text) ==
  /\ CASE PTop.pc = "start" ->
            IF pla = op
            THEN p_match(op, "sub")
            ELSE IF pla = None \/ pla \in follow
            THEN PReturn
            ELSE PRaise("ParseError", text, <<>>)
       [] PTop.pc = "sub" -> PCall("tail", sub)
       [] PTop.pc = "tail" -> PCall("end", name)
       [] PTop.pc = "end" -> PReturn
  /\ UNCHANGED <<pla, pval, pscanner, pout, spent, tee>>
  /\ PQuiet

p_expr ==
  /\ PAt("expr")
  /\ P_Level("term", "term_tail", "in expr: id, binary or '(' expected")

p_term ==
  /\ PAt("term")
  /\ P_Level("factor", "factor_tail", "in term: id, binary or '(' expected")

p_factor ==
  /\ PAt("factor")
  /\ P_Level("operand", "operand_tail", "in factor: id, binary or '(' expected")

p_term_tail ==
  /\ PAt("term_tail")
  /\ P_LevelTail("term_tail", "xor", "term", P_FOLLOW_Term_tail,
                 "in term_tail: xor expected")

p_factor_tail ==
  /\ PAt("factor_tail")
  /\ P_LevelTail("factor_tail", "or", "factor", P_FOLLOW_Factor_tail,
                 "in factor_tail: or expected")

p_operand_tail ==
  /\ PAt("operand_tail")
  /\ P_LevelTail("operand_tail", "and", "operand", P_FOLLOW_Operand_tail,
                 "in operand_tail: or or '?' expected")

p_operand ==
  /\ PAt("operand")
  /\ CASE PTop.pc = "start" ->
            IF pla = "id" THEN p_match("id", "end")
            ELSE IF pla = "binary" THEN p_match("binary", "end")
            ELSE IF pla = "(" THEN p_match("(", "sub")
            ELSE PRaise("ParseError", "in operand: id, binary or '(' expected", <<>>)
       [] PTop.pc = "sub" -> PCall("close", "expr")
       [] PTop.pc = "close" -> p_match(")", "end")
       [] PTop.pc = "end" -> PReturn
  /\ UNCHANGED <<pla, pval, pscanner, pout, spent, tee>>
  /\ PQuiet

PairNext ==
  \/ Next
  \/ P_Main
  \/ P_NextToken
  \/ P_Parse
  \/ P_Handler
  \/ p_stmt_list
  \/ p_stmt
  \/ p_expr
  \/ p_term
  \/ p_factor
  \/ p_term_tail
  \/ p_factor_tail
  \/ p_operand_tail
  \/ p_operand

PairSpec == InitPair /\ [][PairNext]_vars

\* The run goes on while it can: a sequential program does not stop midway.
FairSpec == Spec /\ WF_vars(Next)

\* --------------------------------------------------------------- claims

Final(s) == s \in {"accepted", "scanner_error", "parser_error", "crashed"}

Errored(s) == s \in {"raised", "scanner_error", "parser_error", "crashed"}

PrintLinesOf(o) ==
  LET ps == SelectSeq(o, LAMBDA r : r.kind = "print") IN [i \in 1..Len(ps) |-> ps[i].bits]

PrintLines == PrintLinesOf(out)

Reports == SelectSeq(out, LAMBDA r : r.kind # "print")

\* what the reference evaluator makes of the statements that have taken effect
Effective == SubSeq(h.prog, 1, h.done)

Reference == RefRun(Effective, h.finished)

\* the table holds what the reference evaluator has bound, and nothing else
TableIsReference ==
  /\ DOMAIN st = DOMAIN Reference.env
  /\ \A x \in DOMAIN st : FormatB(st[x]) = RefText(Reference.env[x])

Tok(t) == <<t, t>>

\* C1: every print line is the text of the value the reference evaluator gives
\* the statement: and binds tighter than or, or tighter than xor, a
\* parenthesized expression is a unit, an identifier has the value of the most
\* recent earlier assignment; the table holds the reference's bindings.
C1_PrintsMatchReference ==
  /\ Cardinality(RefStarts(Effective)) = h.finished
  /\ PrintLines = Reference.out
  /\ TableIsReference

\* C1 witness: print ( 1 or 0 ) and 0 has printed 0
C1_Witness ==
  /\ h.finished = h.started
  /\ h.toks = <<Tok("print"), Tok("("), <<"binary", "1">>, Tok("or"), <<"binary", "0">>,
                Tok(")"), Tok("and"), <<"binary", "0">>>>
  /\ PrintLines = << <<"0">> >>

\* C2 (as amended): once an operand is an identifier that no completed
\* assignment has bound, the run ends in an error and nothing else happens: the
\* undefined-identifier error (a RuntimeError naming it), or the scanner's error
\* when the lexeme after the identifier is malformed; never a syntax error, never
\* acceptance; no value stands in for it, no line is printed, nothing is bound.
C2_UndefinedEndsRun ==
  h.undef # "" =>
    /\ status \in {"parsing", "raised", "crashed", "scanner_error"}
    /\ status = "parsing" =>
         \/ Top.proc = "match"
         \/ Top.proc = "operand" /\ Top.pc = "check" /\ ret = PyNone
    /\ status = "raised" => exc.type \in {"RuntimeError", "PlexError"}
    /\ status = "crashed" => exc.type = "RuntimeError" /\ exc.args = <<h.undef>>
    /\ status = "scanner_error" => exc.type = "PlexError"
    /\ st = h.snap[1]
    /\ PrintLines = PrintLinesOf(h.snap[2])

\* C2 as claimed: the run of an unbound operand ends with the
\* undefined-identifier error.
C2_Original == h.undef # "" /\ Final(status) => status = "crashed"

\* C2 witness: x = x has ended with the undefined-identifier error, x unbound
C2_Witness ==
  /\ status = "crashed"
  /\ h.undef = "x"
  /\ h.toks = << <<"id", "x">>, Tok("="), <<"id", "x">> >>
  /\ st = << >>

\* C3: statements take effect in order, one at a time: at most one statement
\* is under way; once it is finished its binding is in the table or its line is
\* the last one printed; the scanner is never more than the one lookahead token
\* ahead of what has been consumed; printed lines are only ever added at the end.
C3_Effects ==
  /\ h.finished <= h.started /\ h.started <= h.finished + 1
  /\ h.ntok <= h.nmatch + 1
  /\ h.last # <<>> /\ h.started = h.finished =>
       IF h.last[1] = "assign"
       THEN h.last[2] \in DOMAIN st /\ st[h.last[2]] = h.last[3]
       ELSE PrintLines # <<>> /\ PrintLines[Len(PrintLines)] = FormatB(h.last[3])

C3_InOrder ==
  /\ []C3_Effects
  /\ [][/\ Len(PrintLines') >= Len(PrintLines)
        /\ SubSeq(PrintLines', 1, Len(PrintLines)) = PrintLines
        /\ h'.started > h.started => h.finished = h.started]_vars

\* C3 witness: a third statement has begun after an assignment and a print
C3_Witness ==
  /\ h.started = 3 /\ h.finished = 2
  /\ h.last[1] = "print"
  /\ DOMAIN st # {}

\* C4: after the first error nothing more is done: no token is consumed, the
\* scanner is not read, no line is printed, the table stays as it is (the
\* assignment under way has bound nothing), parsing never resumes, and at most
\* one error is reported.
C4_AbortsOnError ==
  /\ [][Errored(status) =>
          /\ Errored(status')
          /\ scanner' = scanner /\ la' = la /\ val' = val
          /\ h'.nmatch = h.nmatch /\ h'.started = h.started
          /\ st' = st
          /\ PrintLines' = PrintLines]_vars
  /\ [](Len(Reports) <= 1)
  /\ [](Errored(status) => TableIsReference)

\* C4 witness: an error is reported after a line was printed, during an assignment
C4_Witness ==
  /\ status = "parser_error"
  /\ PrintLines # <<>>
  /\ h.started = h.finished + 1
  /\ h.toks # <<>> /\ h.toks[1][1] = "id"

\* C5: the position reported with a syntax error is that of the lookahead token
\* the check failed at, which lies after every consumed token.
C5_ErrorAtLookahead ==
  status = "parser_error" =>
    /\ out[Len(out)].kind = "Parser Error"
    /\ out[Len(out)].pos = h.laIdx
    /\ out[Len(out)].pos > h.eaten

\* C5 witness: x = = is reported at the third lexeme, the second =
C5_Witness ==
  /\ status = "parser_error"
  /\ h.toks = << <<"id", "x">>, Tok("=") >>
  /\ la = "="
  /\ out[Len(out)].pos = 3

\* What a message of the grammar engine names: the kind found, the kinds expected.
MatchText == "found {} instead of {}"

NamesFound(m) == IF m.text = MatchText THEN {m.args[1]} ELSE {}

NamesExpected(m) ==
  CASE m.text = MatchText -> {m.args[2]}
    [] m.text \in {"in stmt_list: id or print expected",
                   "in stmt: id or print expected"} -> {"id", "print"}
    [] m.text \in {"in expr: id, binary or '(' expected",
                   "in term: id, binary or '(' expected",
                   "in factor: id, binary or '(' expected",
                   "in operand: id, binary or '(' expected"} -> {"id", "binary", "("}
    [] m.text = "in term_tail: xor expected" -> {"xor"}
    [] m.text \in {"in factor_tail: or expected",
                   "in operand_tail: or expected"} -> {"or"}
    [] OTHER -> {}

\* the kinds a procedure goes on with, where it checks the lookahead
GoesOnWith(m) ==
  CASE m.in = "match" -> {m.args[2]}
    [] m.in \in {"stmt_list"} -> {"id", "print", None}
    [] m.in = "stmt" -> {"id", "print"}
    [] m.in \in {"expr", "term", "factor", "operand"} -> FIRST_Operand
    [] m.in = "term_tail" -> {"xor", None} \cup FOLLOW_Term_tail
    [] m.in = "factor_tail" -> {"or", None} \cup FOLLOW_Factor_tail
    [] m.in = "operand_tail" -> {"and", None} \cup FOLLOW_Operand_tail
    [] OTHER -> {}

\* C6 as claimed: the message of every syntax error names the kind found as
\* lookahead and the kind(s) expected, and an expected kind it names is one
\* the procedure goes on with there.
C6_MessageNamesBoth ==
  status = "parser_error" =>
    LET m == out[Len(out)].msg IN
    /\ NamesFound(m) = {la}
    /\ NamesExpected(m) # {}
    /\ NamesExpected(m) \subseteq GoesOnWith(m)

\* C7 as claimed: a statement whose keyword is print in any mix of cases is a
\* print statement: the statement list never rejects such a lookahead.
C7_PrintAnyCase ==
  ~ /\ status = "parser_error"
    /\ exc.in = "stmt_list"
    /\ keyword(Chars(val))

C9_TableFrame ==
  /\ [](status = "start" => st = << >>)
  /\ [][st' # st =>
          /\ At("stmt") /\ Top.pc = "store"
          /\ h.toks[1][1] = "id" /\ h.toks[1][2] = Top.sym
          /\ DOMAIN st' = DOMAIN st \cup {Top.sym}
          /\ st'[Top.sym] = ret[2]
          /\ \A x \in DOMAIN st \ {Top.sym} : st'[x] = st[x]]_vars
  /\ [][DOMAIN st \subseteq DOMAIN st']_vars
  /\ [][h'.finished > h.finished /\ h.toks[1][1] = "id" =>
          h.toks[1][2] \in DOMAIN st' /\ st'[h.toks[1][2]] = ret[2]]_vars

\* C9 witness: the table holds two bindings, the second set after the first
C9_Witness ==
  /\ DOMAIN st = {"x", "y"}
  /\ h.last = <<"assign", "y", st["y"]>>
  /\ h.finished = 2

\* C10: side by side, the two parsers are at the same place with the same
\* lookahead while both parse; if runner.py accepts, parser.py accepts; if
\* parser.py ends in a syntax error, runner.py ends in the same one at the same
\* token, or in the undefined-identifier error at a token no later; a scanner
\* error ends both at the same place.
SameFrames ==
  /\ Len(pstack) = Len(stack)
  /\ \A i \in 1..Len(stack) : pstack[i].proc = stack[i].proc

C10_SideBySide ==
  /\ turn = "R" /\ status = "parsing" /\ pstatus = "parsing" =>
       pla = la /\ pval = val /\ pscanner = scanner /\ SameFrames
  /\ turn = "R" /\ Live(pstatus) /\ ~Live(status) => status = "crashed"
  /\ status = "accepted" /\ Final(pstatus) => pstatus = "accepted"
  /\ status = "scanner_error" /\ Final(pstatus) =>
       pstatus = "scanner_error" /\ pout[1].pos = out[Len(out)].pos
  /\ pstatus = "parser_error" /\ Final(status) =>
       \/ /\ status = "parser_error"
          /\ pout[1].pos = out[Len(out)].pos
          /\ pexc.in = exc.in /\ pexc.args = exc.args
       \/ /\ status = "crashed"
          /\ h.undefAt <= pout[1].pos

\* C10 witness: runner.py has stopped at an unbound identifier and parser.py
\* has gone on to a syntax error at a later token
C10_Witness ==
  /\ status = "crashed"
  /\ pstatus = "parser_error"
  /\ h.undefAt < pout[1].pos

====
